---- MODULE Spec2Model ----
(***************************************************************************)
(* Model of the CSS Properties and Values "syntax descriptor" parser       *)
(* (src/src/lib.rs) and of its whitespace trimmer (src/src/ascii.rs).      *)
(*                                                                         *)
(* Strings are sequences of bytes (0..255).  Rust positions are 0-based;   *)
(* the byte at Rust position p is s[p + 1] here.                           *)
(***************************************************************************)
EXTENDS Integers, Sequences, FiniteSets, TLC

VARIABLES
    parts,      \* the pieces the caller's string is made of (input = their concatenation)
    input,      \* parse_descriptor's argument
    pc,         \* where parse_descriptor (or its caller) stands
    trimmed,    \* the shadowing `input` of lib.rs:156, later Parser::input
    position,   \* Parser::position
    output,     \* Parser::output, the `components` vector
    iterations, \* how many times the loop of Parser::parse has gone round
    result,     \* what parse_descriptor returned
    cow,        \* what the caller's last Component::unpremultipied call returned
    panic       \* which assertion failed, if any

vars ==
    <<parts, input, pc, trimmed, position, output, iterations, result, cow,
      panic>>

----------------------------------------------------------------------------
(* Bounds of the model.                                                    *)

\* Spec: the input is the concatenation of at most MaxChunks elements of Chunks.
MaxChunks == 3
\* SpecJoin: the input is at most MaxTexts component texts with separators between.
MaxTexts == 2

----------------------------------------------------------------------------
(* src/src/ascii.rs                                                        *)

\* The whitespace class without the form feed.
is_ascii_whitespace_no_form_feed(byte) == byte \in {32, 9, 10, 13}

\* u8::is_ascii_whitespace: space, tab, LF, form feed, CR.
is_ascii_whitespace(byte) == byte \in {32, 9, 10, 12, 13}

\* The forward scan when it forgets to stop at the end of the input.
trim_forward_no_eof_check(bytes, start) ==
    LET ws == {i \in 1..Len(bytes) : ~is_ascii_whitespace(bytes[i])}
    IN  IF ws = {} THEN Len(bytes)
        ELSE (CHOOSE i \in ws : \A j \in ws : i <= j) - 1

\* The first loop (ascii.rs:13-23): the iterator has yielded `start` bytes, all
\* whitespace.  -1 stands for `iter.next() == None`.
RECURSIVE trim_forward(_, _)
trim_forward(bytes, start) ==
    IF start >= Len(bytes) THEN -1
    ELSE IF ~is_ascii_whitespace(bytes[start + 1]) THEN start
    ELSE trim_forward(bytes, start + 1)

\* The second loop (ascii.rs:30-43) over input[start..] reversed.  -1 stands for
\* `iter.next() == None`.
RECURSIVE trim_backward(_, _, _)
trim_backward(bytes, start, end) ==
    IF end <= start THEN -1
    ELSE IF ~is_ascii_whitespace(bytes[end]) THEN end
    ELSE trim_backward(bytes, start, end - 1)

trim_ascii_whitespace(bytes) ==
    IF Len(bytes) = 0
    THEN [slice |-> bytes, start |-> 0, end |-> 0, panic |-> "none"]
    ELSE LET start == trim_forward(bytes, 0)
         IN  IF start = -1
             THEN [slice |-> <<>>, start |-> 0, end |-> 0, panic |-> "none"]
             ELSE IF ~(start < Len(bytes))
             THEN [slice |-> <<>>, start |-> start, end |-> Len(bytes),
                   panic |-> "assert"]
             ELSE LET end == trim_backward(bytes, start, Len(bytes))
                  IN  IF end = -1
                      THEN [slice |-> <<>>, start |-> start, end |-> start,
                            panic |-> "debug_assert"]
                      ELSE [slice |-> SubSeq(bytes, start + 1, end),
                            start |-> start, end |-> end, panic |-> "none"]

----------------------------------------------------------------------------
(* src/src/lib.rs: the data model                                          *)

NoMultiplier == "None"
Multiplier == {"Space", "Comma"}

DataType ==
    {"Length", "Number", "Percentage", "LengthPercentage", "Color", "Image",
     "Url", "Integer", "Angle", "Time", "Resolution", "TransformFunction",
     "TransformList", "CustomIdent"}

DataTypeName(ty) == [kind |-> "DataType", ty |-> ty]
IdentName(ident) == [kind |-> "Ident", ident |-> ident]
Component(name, multiplier) == [name |-> name, multiplier |-> multiplier]

\* DataType::unpremultiply; "None" stands for Option::None.
DataType_unpremultiply(ty) ==
    IF ty = "TransformList"
    THEN [some |-> TRUE,
          component |-> Component(DataTypeName("TransformFunction"), "Space")]
    ELSE [some |-> FALSE,
          component |-> Component(DataTypeName(ty), NoMultiplier)]

ComponentName_unpremultiply(name) ==
    IF name.kind = "DataType"
    THEN DataType_unpremultiply(name.ty)
    ELSE [some |-> FALSE, component |-> Component(name, NoMultiplier)]

\* No name is taken for pre-multiplied.
is_pre_multiplied_never(name) == FALSE

is_pre_multiplied(name) == ComponentName_unpremultiply(name).some

\* Component::unpremultipied: the Cow it returns, and whether the debug
\* assertion failed on the way.
unpremultipied(component) ==
    LET u == ComponentName_unpremultiply(component.name)
    IN  IF u.some
        THEN [kind |-> "Owned", component |-> u.component,
              assertion_failed |-> component.multiplier # NoMultiplier]
        ELSE [kind |-> "Borrowed", component |-> component,
              assertion_failed |-> FALSE]

\* DataType::from_bytes; "None" stands for Option::None.
from_bytes(ty) ==
    CASE ty = <<108, 101, 110, 103, 116, 104>>
         -> "Length"             \* b"length"
    [] ty = <<110, 117, 109, 98, 101, 114>>
         -> "Number"             \* b"number"
    [] ty = <<112, 101, 114, 99, 101, 110, 116, 97, 103, 101>>
         -> "Percentage"         \* b"percentage"
    [] ty = <<108, 101, 110, 103, 116, 104, 45, 112, 101, 114, 99, 101, 110,
              116, 97, 103, 101>>
         -> "LengthPercentage"   \* b"length-percentage"
    [] ty = <<99, 111, 108, 111, 114>>
         -> "Color"              \* b"color"
    [] ty = <<105, 109, 97, 103, 101>>
         -> "Image"              \* b"image"
    [] ty = <<117, 114, 108>>
         -> "Url"                \* b"url"
    [] ty = <<105, 110, 116, 101, 103, 101, 114>>
         -> "Integer"            \* b"integer"
    [] ty = <<97, 110, 103, 108, 101>>
         -> "Angle"              \* b"angle"
    [] ty = <<116, 105, 109, 101>>
         -> "Time"               \* b"time"
    [] ty = <<114, 101, 115, 111, 108, 117, 116, 105, 111, 110>>
         -> "Resolution"         \* b"resolution"
    [] ty = <<116, 114, 97, 110, 115, 102, 111, 114, 109, 45, 102, 117, 110,
              99, 116, 105, 111, 110>>
         -> "TransformFunction"  \* b"transform-function"
    [] ty = <<99, 117, 115, 116, 111, 109, 45, 105, 100, 101, 110, 116>>
         -> "CustomIdent"        \* b"custom-ident"
    [] ty = <<116, 114, 97, 110, 115, 102, 111, 114, 109, 45, 108, 105, 115,
              116>>
         -> "TransformList"      \* b"transform-list"
    [] OTHER -> "None"

\* u8::to_ascii_lowercase, as str::eq_ignore_ascii_case applies it.
to_ascii_lowercase(byte) ==
    IF byte >= 65 /\ byte <= 90 THEN byte + 32 ELSE byte

eq_ignore_ascii_case(a, b) ==
    /\ Len(a) = Len(b)
    /\ \A i \in 1..Len(a) : to_ascii_lowercase(a[i]) = to_ascii_lowercase(b[i])

\* CustomIdent::from_ident: TRUE for Ok, FALSE for Err(()).
from_ident(ident) ==
    ~ \/ eq_ignore_ascii_case(ident, <<105, 110, 104, 101, 114, 105, 116>>)  \* "inherit"
      \/ eq_ignore_ascii_case(ident, <<114, 101, 115, 101, 116>>)            \* "reset"
      \/ eq_ignore_ascii_case(ident, <<114, 101, 118, 101, 114, 116>>)       \* "revert"
      \/ eq_ignore_ascii_case(ident, <<117, 110, 115, 101, 116>>)            \* "unset"
      \/ eq_ignore_ascii_case(ident, <<100, 101, 102, 97, 117, 108, 116>>)   \* "default"

----------------------------------------------------------------------------
(* The external CSS tokenizer, as far as Parser::parse_name uses it:       *)
(* cssparser::Parser::expect_ident on the rest of the input, which starts  *)
(* with a name-start byte or a backslash (lib.rs:309-317).                 *)

is_hex_digit(byte) ==
    \/ byte >= 48 /\ byte <= 57      \* 0-9
    \/ byte >= 65 /\ byte <= 70      \* A-F
    \/ byte >= 97 /\ byte <= 102     \* a-f

hex_value(byte) ==
    IF byte <= 57 THEN byte - 48
    ELSE IF byte <= 70 THEN byte - 55
    ELSE byte - 87

\* The UTF-8 encoding of U+FFFD REPLACEMENT CHARACTER.
REPLACEMENT_CHAR == <<239, 191, 189>>

\* char::from_u32(c) encoded as UTF-8; U+FFFD for zero, a surrogate, or a
\* value past U+10FFFF.
encode_utf8(c) ==
    IF c = 0 \/ (c >= 55296 /\ c <= 57343) \/ c > 1114111 THEN REPLACEMENT_CHAR
    ELSE IF c < 128 THEN <<c>>
    ELSE IF c < 2048 THEN <<192 + (c \div 64), 128 + (c % 64)>>
    ELSE IF c < 65536
    THEN <<224 + (c \div 4096), 128 + ((c \div 64) % 64), 128 + (c % 64)>>
    ELSE <<240 + (c \div 262144), 128 + ((c \div 4096) % 64),
           128 + ((c \div 64) % 64), 128 + (c % 64)>>

\* The byte length of the UTF-8 character whose first byte is `byte`.
utf8_char_len(byte) ==
    IF byte < 128 THEN 1
    ELSE IF byte < 224 THEN 2
    ELSE IF byte < 240 THEN 3
    ELSE 4

\* Tokenizer::has_newline_at(1), with the tokenizer at `pos`.
has_newline_at_1(bytes, pos) ==
    pos + 1 < Len(bytes) /\ bytes[pos + 2] \in {10, 13, 12}

\* At most six hex digits from `pos`.
RECURSIVE consume_hex_digits(_, _, _, _)
consume_hex_digits(bytes, pos, value, digits) ==
    IF digits < 6 /\ pos < Len(bytes) /\ is_hex_digit(bytes[pos + 1])
    THEN consume_hex_digits(bytes, pos + 1,
                            value * 16 + hex_value(bytes[pos + 1]), digits + 1)
    ELSE [value |-> value, pos |-> pos]

\* The position after the whitespace a hex escape ending at `pos` takes with
\* it: one space, tab, LF or form feed, or CR with an LF after it.
consume_escape_whitespace(bytes, pos) ==
    IF pos >= Len(bytes) THEN pos
    ELSE IF bytes[pos + 1] \in {32, 9, 10, 12} THEN pos + 1
    ELSE IF bytes[pos + 1] = 13
    THEN IF pos + 1 < Len(bytes) /\ bytes[pos + 2] = 10 THEN pos + 2 ELSE pos + 1
    ELSE pos

consume_hex_escape(bytes, h) ==
    [chars |-> encode_utf8(h.value),
     pos |-> consume_escape_whitespace(bytes, h.pos)]

\* The escape whose backslash ends at `pos`: the character it stands for and
\* the position after it.
consume_escape(bytes, pos) ==
    IF pos >= Len(bytes) THEN [chars |-> REPLACEMENT_CHAR, pos |-> pos]
    ELSE IF is_hex_digit(bytes[pos + 1])
    THEN consume_hex_escape(bytes, consume_hex_digits(bytes, pos, 0, 0))
    ELSE IF bytes[pos + 1] = 0
    THEN [chars |-> REPLACEMENT_CHAR, pos |-> pos + 1]
    ELSE [chars |-> SubSeq(bytes, pos + 1, pos + utf8_char_len(bytes[pos + 1])),
          pos |-> pos + utf8_char_len(bytes[pos + 1])]

\* consume_name: the name collected so far is `value`.
\* What one byte `b` at `pos` adds to the name: the characters, the position
\* after them, and whether the name goes on.
consume_name_byte(bytes, pos, b) ==
    IF \/ b >= 97 /\ b <= 122
       \/ b >= 65 /\ b <= 90
       \/ b >= 48 /\ b <= 57
       \/ b = 95
       \/ b = 45
       \/ b >= 128
    THEN [more |-> TRUE, chars |-> <<b>>, pos |-> pos + 1]
    ELSE IF b = 92 /\ ~has_newline_at_1(bytes, pos)
    THEN [more |-> TRUE] @@ consume_escape(bytes, pos + 1)
    ELSE IF b = 0
    THEN [more |-> TRUE, chars |-> REPLACEMENT_CHAR, pos |-> pos + 1]
    ELSE [more |-> FALSE, chars |-> <<>>, pos |-> pos]

\* consume_name: the name collected so far is `value`; `step` is what the byte
\* at `pos` adds.
RECURSIVE consume_name_from(_, _, _)
consume_name_from(bytes, value, step) ==
    IF ~step.more THEN [value |-> value, pos |-> step.pos]
    ELSE IF step.pos >= Len(bytes)
    THEN [value |-> value \o step.chars, pos |-> step.pos]
    ELSE consume_name_from(bytes, value \o step.chars,
                           consume_name_byte(bytes, step.pos,
                                             bytes[step.pos + 1]))

consume_name(bytes, pos) ==
    consume_name_from(bytes, <<>>, [more |-> TRUE, chars |-> <<>>, pos |-> pos])

\* consume_ident_like at `pos`, after consume_name returned `n`.
\* expect_ident at `pos`: Ok with the identifier and the position after it, or
\* Err when the next token is not an identifier (an invalid escape, or a name
\* followed by `(`, which makes a function or url token).
consume_ident_like(bytes, pos, n) ==
    IF n.pos < Len(bytes) /\ bytes[n.pos + 1] = 40
    THEN [ok |-> FALSE, value |-> <<>>, pos |-> pos]
    ELSE [ok |-> TRUE, value |-> n.value, pos |-> n.pos]

expect_ident(bytes, pos) ==
    IF bytes[pos + 1] = 92 /\ has_newline_at_1(bytes, pos)
    THEN [ok |-> FALSE, value |-> <<>>, pos |-> pos]
    ELSE consume_ident_like(bytes, pos, consume_name(bytes, pos))

----------------------------------------------------------------------------
(* src/src/lib.rs: the parser                                              *)

\* The parser's whitespace class with the trimmer's form feed in it.
is_whitespace_with_form_feed(byte) == byte \in {9, 10, 12, 13, 32}

\* https://drafts.csswg.org/css-syntax-3/#whitespace
is_whitespace(byte) == byte \in {9, 10, 13, 32}

is_letter(byte) ==
    \/ byte >= 65 /\ byte <= 90
    \/ byte >= 97 /\ byte <= 122

is_non_ascii(byte) == byte >= 128

is_name_start(byte) == is_letter(byte) \/ is_non_ascii(byte) \/ byte = 95

\* Parser::peek; -1 stands for Option::None.
peek(bytes, pos) == IF pos < Len(bytes) THEN bytes[pos + 1] ELSE -1

\* Parser::skip_whitespace: the position it leaves.
RECURSIVE skip_whitespace(_, _)
skip_whitespace(bytes, pos) ==
    IF is_whitespace(peek(bytes, pos))
    THEN skip_whitespace(bytes, pos + 1)
    ELSE pos

\* The loop of Parser::parse_data_type_name: the position of the first `>` at
\* or after `pos`, or -1 when the input ends first.
RECURSIVE scan_data_type_name(_, _)
scan_data_type_name(bytes, pos) ==
    IF pos >= Len(bytes) THEN -1
    ELSE IF bytes[pos + 1] # 62 THEN scan_data_type_name(bytes, pos + 1)
    ELSE pos

Ok(value, pos) == [ok |-> TRUE, err |-> "None", value |-> value, pos |-> pos]
Err(err, pos) == [ok |-> FALSE, err |-> err, value |-> "None", pos |-> pos]

\* The closing `>` left unconsumed.
parse_data_type_name_lookup_no_advance(ty, gt) ==
    IF ty = "None" THEN Err("UnknownDataTypeName", gt)
    ELSE Ok(DataTypeName(ty), gt)

\* lib.rs:289-294: `gt` is the position of the first `>`, `ty` is what
\* from_bytes made of the bytes before it.
parse_data_type_name_lookup(ty, gt) ==
    IF ty = "None" THEN Err("UnknownDataTypeName", gt)
    ELSE Ok(DataTypeName(ty), gt + 1)

\* The end of the input reported with the wrong error.
parse_data_type_name_from_eof(bytes, start, gt) ==
    IF gt = -1 THEN Err("UnexpectedEOF", Len(bytes))
    ELSE parse_data_type_name_lookup(from_bytes(SubSeq(bytes, start + 1, gt)), gt)

\* lib.rs:279-288: `gt` is where the loop stopped.
parse_data_type_name_from(bytes, start, gt) ==
    IF gt = -1 THEN Err("UnclosedDataTypeName", Len(bytes))
    ELSE parse_data_type_name_lookup(from_bytes(SubSeq(bytes, start + 1, gt)), gt)

\* Parser::parse_data_type_name, wrapped in ComponentName::DataType when Ok.
parse_data_type_name(bytes, pos) ==
    parse_data_type_name_from(bytes, pos, scan_data_type_name(bytes, pos))

\* lib.rs:316-325: `name` is what expect_ident returned at `pos`.
parse_name_ident(name, pos) ==
    IF name.ok /\ from_ident(name.value)
    THEN Ok(IdentName(name.value), name.pos)
    ELSE Err("InvalidName", pos)

\* Parser::parse_name; `b` is what peek returned.
parse_name_byte(bytes, pos, b) ==
    IF b = -1 THEN Err("UnexpectedEOF", pos)
    ELSE IF b = 60 THEN parse_data_type_name(bytes, pos + 1)
    ELSE IF b # 92 /\ ~is_name_start(b) THEN Err("InvalidNameStart", pos)
    ELSE parse_name_ident(expect_ident(bytes, pos), pos)

parse_name(bytes, pos) == parse_name_byte(bytes, pos, peek(bytes, pos))

\* Parser::parse_multiplier: the Option it returns and the position it leaves.
parse_multiplier(bytes, pos) ==
    IF peek(bytes, pos) = 43 THEN Ok("Space", pos + 1)
    ELSE IF peek(bytes, pos) = 35 THEN Ok("Comma", pos + 1)
    ELSE Ok(NoMultiplier, pos)

\* lib.rs:348: the component made of `name` and of what parse_multiplier (or
\* nothing) returned.
parse_component_make(name, multiplier) ==
    Ok(Component(name, multiplier.value), multiplier.pos)

\* lib.rs:342-348: `name` is what parse_name returned.
parse_component_name(bytes, name) ==
    IF ~name.ok THEN name
    ELSE parse_component_make(name.value,
                              IF is_pre_multiplied(name.value)
                              THEN Ok(NoMultiplier, name.pos)
                              ELSE parse_multiplier(bytes, name.pos))

parse_component(bytes, pos) ==
    parse_component_name(bytes, parse_name(bytes, skip_whitespace(bytes, pos)))

\* lib.rs:263-264: `component` is what parse_component returned.
parse_push(component, out) ==
    IF ~component.ok
    THEN [ctl |-> "return", err |-> component.err,
          pos |-> component.pos, out |-> out]
    ELSE [ctl |-> "continue", err |-> "None",
          pos |-> component.pos, out |-> Append(out, component.value)]

\* The iteration that insists on a `|` between two components.
parse_byte_pipe_required(bytes, pos, out, byte) ==
    IF byte = -1
    THEN IF out = <<>>
         THEN [ctl |-> "return", err |-> "UnexpectedEOF", pos |-> pos, out |-> out]
         ELSE [ctl |-> "return", err |-> "None", pos |-> pos, out |-> out]
    ELSE IF is_whitespace(byte)
    THEN [ctl |-> "continue", err |-> "None", pos |-> pos + 1, out |-> out]
    ELSE IF byte = 124 /\ out = <<>>
    THEN [ctl |-> "return", err |-> "UnexpectedPipe", pos |-> pos, out |-> out]
    ELSE IF byte # 124 /\ out # <<>>
    THEN [ctl |-> "return", err |-> "InvalidNameStart", pos |-> pos, out |-> out]
    ELSE parse_push(parse_component(bytes, IF byte = 124 THEN pos + 1 ELSE pos),
                    out)

\* The iteration that takes a leading `|` for a separator.
parse_byte_pipe_unchecked(bytes, pos, out, byte) ==
    IF byte = -1
    THEN IF out = <<>>
         THEN [ctl |-> "return", err |-> "UnexpectedEOF", pos |-> pos, out |-> out]
         ELSE [ctl |-> "return", err |-> "None", pos |-> pos, out |-> out]
    ELSE IF is_whitespace(byte)
    THEN [ctl |-> "continue", err |-> "None", pos |-> pos + 1, out |-> out]
    ELSE parse_push(parse_component(bytes, IF byte = 124 THEN pos + 1 ELSE pos),
                    out)

\* The iteration that does not step over a whitespace byte.
parse_byte_whitespace_stuck(bytes, pos, out, byte) ==
    IF byte = -1
    THEN IF out = <<>>
         THEN [ctl |-> "return", err |-> "UnexpectedEOF", pos |-> pos, out |-> out]
         ELSE [ctl |-> "return", err |-> "None", pos |-> pos, out |-> out]
    ELSE IF is_whitespace(byte)
    THEN [ctl |-> "continue", err |-> "None", pos |-> pos, out |-> out]
    ELSE IF byte = 124 /\ out = <<>>
    THEN [ctl |-> "return", err |-> "UnexpectedPipe", pos |-> pos, out |-> out]
    ELSE parse_push(parse_component(bytes, IF byte = 124 THEN pos + 1 ELSE pos),
                    out)

\* One iteration of the loop of Parser::parse, `byte` being what peek returned:
\* "continue" to go round again, "return" with the Result in `err` ("None" for
\* Ok(())).
parse_byte(bytes, pos, out, byte) ==
    IF byte = -1
    THEN IF out = <<>>
         THEN [ctl |-> "return", err |-> "UnexpectedEOF", pos |-> pos, out |-> out]
         ELSE [ctl |-> "return", err |-> "None", pos |-> pos, out |-> out]
    ELSE IF is_whitespace(byte)
    THEN [ctl |-> "continue", err |-> "None", pos |-> pos + 1, out |-> out]
    ELSE IF byte = 124 /\ out = <<>>
    THEN [ctl |-> "return", err |-> "UnexpectedPipe", pos |-> pos, out |-> out]
    ELSE parse_push(parse_component(bytes, IF byte = 124 THEN pos + 1 ELSE pos),
                    out)

parse(bytes, pos, out) == parse_byte(bytes, pos, out, peek(bytes, pos))

----------------------------------------------------------------------------
(* The strings the model parses.                                           *)

\* The pieces an input of Spec is made of.
Chunks ==
    { <<32>>,                   \* " "
      <<10>>,                   \* "\n"
      <<12>>,                   \* form feed
      <<42>>,                   \* "*"
      <<124>>,                  \* "|"
      <<60>>,                   \* "<"
      <<62>>,                   \* ">"
      <<43>>,                   \* "+"
      <<35>>,                   \* "#"
      <<97>>,                   \* "a"
      <<92>>,                   \* "\"
      <<195, 169>>,             \* U+00E9, two bytes of UTF-8
      <<60, 117, 114, 108, 62>>,                     \* "<url>"
      <<60, 116, 114, 97, 110, 115, 102, 111, 114, 109, 45, 108, 105, 115,
        116, 62>>,                                   \* "<transform-list>"
      <<85, 110, 115, 101, 116>> }                   \* "Unset"

\* The component texts an input of SpecJoin is made of, each with the
\* component it denotes when it stands alone.
ComponentTexts ==
    { [bytes |-> <<97>>,                                       \* "a"
       component |-> Component(IdentName(<<97>>), NoMultiplier)],
      [bytes |-> <<97, 43>>,                                   \* "a+"
       component |-> Component(IdentName(<<97>>), "Space")],
      [bytes |-> <<195, 169, 35>>,                             \* U+00E9 "#"
       component |-> Component(IdentName(<<195, 169>>), "Comma")],
      [bytes |-> <<60, 117, 114, 108, 62>>,                    \* "<url>"
       component |-> Component(DataTypeName("Url"), NoMultiplier)],
      [bytes |-> <<60, 117, 114, 108, 62, 35>>,                \* "<url>#"
       component |-> Component(DataTypeName("Url"), "Comma")],
      [bytes |-> <<60, 116, 114, 97, 110, 115, 102, 111, 114, 109, 45, 108,
                   105, 115, 116, 62>>,                        \* "<transform-list>"
       component |-> Component(DataTypeName("TransformList"), NoMultiplier)],
      [bytes |-> <<92, 97>>,                                   \* "\a", U+000A escaped
       component |-> Component(IdentName(<<10>>), NoMultiplier)],
      [bytes |-> <<92, 97, 43>>,                               \* "\a+"
       component |-> Component(IdentName(<<10>>), "Space")],
      [bytes |-> <<97, 92>>,                                   \* "a\"
       component |-> Component(IdentName(<<97, 239, 191, 189>>), NoMultiplier)] }

\* What stands between two component texts of SpecJoin.
Separators ==
    { <<32>>,                   \* " "
      <<9>>,                    \* "\t"
      <<10>>,                   \* "\n"
      <<13>>,                   \* "\r"
      <<124>>,                  \* "|"
      <<32, 124, 32>> }         \* " | "

RECURSIVE Concat(_)
Concat(seqs) ==
    IF seqs = <<>> THEN <<>> ELSE Head(seqs) \o Concat(Tail(seqs))

\* texts[1] seps[1] texts[2] ... texts[n]
Interleave(texts, seps) ==
    [i \in 1..(2 * Len(texts) - 1) |->
        IF i % 2 = 1 THEN texts[(i + 1) \div 2].bytes ELSE seps[i \div 2]]

NoResult == [status |-> "None", error |-> "None", descriptor |-> <<>>]
ResultOk(components) ==
    [status |-> "Ok", error |-> "None", descriptor |-> components]
ResultErr(error) == [status |-> "Err", error |-> error, descriptor |-> <<>>]

NoCow == [kind |-> "None",
          component |-> Component(IdentName(<<>>), NoMultiplier),
          assertion_failed |-> FALSE]

Start(p) ==
    /\ parts = p
    /\ input = Concat(p)
    /\ pc = "trim"
    /\ trimmed = <<>>
    /\ position = 0
    /\ output = <<>>
    /\ iterations = 0
    /\ result = NoResult
    /\ cow = NoCow
    /\ panic = "none"

Init ==
    \E n \in 0..MaxChunks : \E p \in [1..n -> Chunks] : Start(p)

InitJoin ==
    \E n \in 1..MaxTexts :
        \E texts \in [1..n -> ComponentTexts] :
            \E seps \in [1..(n - 1) -> Separators] :
                Start(Interleave(texts, seps))

----------------------------------------------------------------------------
(* parse_descriptor, step by step                                          *)

\* The test for `*` that forgets the length.
is_universal_any_length(bytes) == bytes[1] = 42

\* lib.rs:165, on a non-empty string: is it the one byte `*`?
is_universal(bytes) == Len(bytes) = 1 /\ bytes[1] = 42

\* lib.rs:156: the call of ascii::trim_ascii_whitespace.
Trim ==
    /\ pc = "trim"
    /\ LET t == trim_ascii_whitespace(input)
       IN  IF t.panic # "none"
           THEN /\ pc' = "panicked"
                /\ panic' = t.panic
                /\ UNCHANGED trimmed
           ELSE /\ pc' = "check"
                /\ trimmed' = t.slice
                /\ UNCHANGED panic
    /\ UNCHANGED <<parts, input, position, output, iterations, result, cow>>

\* lib.rs:159-177: the two early returns, then Parser::new.
Prologue ==
    /\ pc = "check"
    /\ IF Len(trimmed) = 0
       THEN /\ result' = ResultErr("EmptyInput")
            /\ pc' = "done"
       ELSE IF is_universal(trimmed)
       THEN /\ result' = ResultOk(<<>>)
            /\ pc' = "done"
       ELSE /\ pc' = "parse"
            /\ UNCHANGED result
    /\ position' = 0
    /\ output' = <<>>
    /\ iterations' = 0
    /\ UNCHANGED <<parts, input, trimmed, cow, panic>>

\* lib.rs:232-265: one iteration of the loop of Parser::parse; an Err leaves
\* parse_descriptor through the `?` of lib.rs:179.
ParseLoop ==
    /\ pc = "parse"
    /\ LET r == parse(trimmed, position, output)
       IN  /\ position' = r.pos
           /\ output' = r.out
           /\ iterations' = iterations + 1
           /\ IF r.ctl = "continue"
              THEN pc' = "parse" /\ UNCHANGED result
              ELSE IF r.err = "None"
              THEN pc' = "parsed" /\ UNCHANGED result
              ELSE pc' = "done" /\ result' = ResultErr(r.err)
    /\ UNCHANGED <<parts, input, trimmed, cow, panic>>

\* lib.rs:181: Ok(Descriptor(components.into_boxed_slice())).
Finish ==
    /\ pc = "parsed"
    /\ result' = ResultOk(output)
    /\ pc' = "done"
    /\ UNCHANGED <<parts, input, trimmed, position, output, iterations, cow,
                   panic>>

\* The caller asks a component of the descriptor it got for its
\* un-premultiplied form (lib.rs:51-62).
Unpremultiply ==
    /\ pc = "done"
    /\ result.status = "Ok"
    /\ \E i \in 1..Len(result.descriptor) :
          LET c == unpremultipied(result.descriptor[i])
          IN  /\ cow' = c
              /\ panic' = IF c.assertion_failed THEN "debug_assert" ELSE panic
    /\ UNCHANGED <<parts, input, pc, trimmed, position, output, iterations,
                   result>>

Next ==
    \/ Trim
    \/ Prologue
    \/ ParseLoop
    \/ Finish
    \/ Unpremultiply

Spec == Init /\ [][Next]_vars

SpecJoin == InitJoin /\ [][Next]_vars


----------------------------------------------------------------------------
(* Vocabulary of the properties below.                                     *)

\* The ASCII whitespace class of the trimmer and the whitespace class of the
\* parser, as the specification lists them.
AsciiWhitespace == {32, 9, 10, 13, 12}
ParserWhitespace == {9, 10, 13, 32}

Min(S) == CHOOSE x \in S : \A y \in S : x <= y
Max(S) == CHOOSE x \in S : \A y \in S : x >= y
Last(s) == s[Len(s)]

NonWhitespace(s) == {i \in 1..Len(s) : s[i] \notin AsciiWhitespace}

\* The maximal sub-slice of s that neither starts nor ends with ASCII whitespace.
MaximalTrim(s) ==
    IF NonWhitespace(s) = {} THEN <<>>
    ELSE SubSeq(s, Min(NonWhitespace(s)), Max(NonWhitespace(s)))

Returned == pc = "done"

\* The first position at or after p that holds no parser whitespace (the end of
\* the input if there is none).
AfterWhitespace(p) ==
    Min({i \in p..Len(trimmed) :
            i = Len(trimmed) \/ trimmed[i + 1] \notin ParserWhitespace})

\* The main loop is about to look at a byte.
AtLoopHead == pc = "parse" /\ position < Len(trimmed)

\* With the main loop at its head: the position where this iteration expects a
\* component name, or -1 when it expects none (it skips a whitespace byte or
\* fails on a leading `|`).
NamePosition ==
    IF trimmed[position + 1] \in ParserWhitespace THEN -1
    ELSE IF trimmed[position + 1] = 124
    THEN IF output = <<>> THEN -1 ELSE AfterWhitespace(position + 1)
    ELSE position

\* With the main loop at its head: the byte where it expects a component name,
\* -1 when there is none.
NameByte ==
    IF NamePosition = -1 \/ NamePosition >= Len(trimmed) THEN -1
    ELSE trimmed[NamePosition + 1]

IsTransformList(component) == component.name = DataTypeName("TransformList")

----------------------------------------------------------------------------
(* Properties                                                              *)

\* C1: parse_descriptor returns Ok with an empty component list if and only
\* if the input, ASCII whitespace trimmed off both ends, is exactly the one
\* byte `*`; every other successful parse returns at least one component.
C1_UniversalIffStar ==
    Returned =>
        ((result.status = "Ok" /\ result.descriptor = <<>>)
            <=> MaximalTrim(input) = <<42>>)

\* `*` between whitespace was parsed to the universal descriptor.
C1_Witness ==
    /\ Returned
    /\ result = ResultOk(<<>>)
    /\ Len(input) > 1

\* C8: trim_ascii_whitespace returns the maximal sub-slice whose first and
\* last bytes are not ASCII whitespace, the empty slice for an empty or
\* all-whitespace input, and neither of its assertions ever fails.
C8_TrimIsMaximalAndTotal ==
    /\ pc # "panicked"
    /\ panic = "none"
    /\ pc # "trim" => trimmed = MaximalTrim(input)

\* The trimmer cut whitespace off both ends of an input and left something.
C8_Witness ==
    /\ pc = "check"
    /\ trimmed # <<>>
    /\ input[1] \in AsciiWhitespace
    /\ Last(input) \in AsciiWhitespace

\* C9: parse_descriptor returns EmptyInput if and only if the input is empty
\* or consists of ASCII whitespace only.
C9_EmptyInputIffBlank ==
    Returned =>
        (result = ResultErr("EmptyInput")
            <=> \A i \in 1..Len(input) : input[i] \in AsciiWhitespace)

\* A non-empty input of whitespace only, a form feed among it, was rejected
\* as EmptyInput.
C9_Witness ==
    /\ Returned
    /\ result = ResultErr("EmptyInput")
    /\ \E i \in 1..Len(input) : input[i] = 12
    /\ \E i \in 1..Len(input) : input[i] = 32

\* C2: a transform-list component of a parsed descriptor never carries a
\* multiplier, so the debug assertion of Component::unpremultipied never
\* fails; a `+` or `#` right after `<transform-list>` is never consumed: while
\* the loop runs and the last component is a transform-list, the byte the
\* parser consumed last is no multiplier sign.
C2_PreMultipliedHasNoMultiplier ==
    /\ panic = "none"
    /\ \A i \in 1..Len(output) :
          IsTransformList(output[i]) => output[i].multiplier = NoMultiplier
    /\ \A i \in 1..Len(result.descriptor) :
          IsTransformList(result.descriptor[i])
              => result.descriptor[i].multiplier = NoMultiplier
    /\ (pc = "parse" /\ output # <<>> /\ IsTransformList(Last(output)))
          => trimmed[position] \notin {43, 35}

\* The caller un-premultiplied a parsed transform-list component.
C2_Witness ==
    /\ Returned
    /\ cow.kind = "Owned"
    /\ \E i \in 1..Len(result.descriptor) :
          IsTransformList(result.descriptor[i])

\* C3, as claimed: UnexpectedEOF is never returned while the output list is
\* non-empty.
C3_EofOnlyBeforeFirstComponent ==
    (Returned /\ result.error = "UnexpectedEOF") => output = <<>>

\* C3, amended: UnexpectedEOF is returned only when the input runs out where
\* a component name is expected after a `|` separator, the last byte of the
\* trimmed input, which only happens with a component already in the output;
\* when the main loop itself meets the end of the input, the output is not
\* empty, and the parse succeeds with it.
C3_EofOnlyAfterTrailingPipe ==
    /\ (Returned /\ result.error = "UnexpectedEOF")
          => /\ output # <<>>
             /\ Last(trimmed) = 124
             /\ position = Len(trimmed)
    /\ (pc = "parse" /\ position >= Len(trimmed)) => output # <<>>
    /\ pc = "parsed" => (output # <<>> /\ position = Len(trimmed))
    /\ (Returned /\ result.status = "Ok" /\ ~is_universal(trimmed))
          => (result.descriptor = output /\ output # <<>>)

\* A parse failed with UnexpectedEOF after a component and a trailing `|`.
C3_Witness ==
    /\ Returned
    /\ result.error = "UnexpectedEOF"
    /\ Len(output) >= 1

ComponentErrors ==
    {"UnexpectedEOF", "InvalidNameStart", "InvalidName", "UnclosedDataTypeName",
     "UnknownDataTypeName"}

\* C5: when the main loop meets a `|`: with no component produced yet the
\* parse fails with UnexpectedPipe; otherwise the `|` is consumed and a
\* component is parsed in the same iteration (appended, or its error
\* returned).  parse_descriptor returns UnexpectedPipe exactly when the first
\* byte of the trimmed input is `|`.
C5_PipeStep ==
    (AtLoopHead /\ trimmed[position + 1] = 124) =>
        IF output = <<>>
        THEN pc' = "done" /\ result' = ResultErr("UnexpectedPipe")
        ELSE \/ /\ pc' = "parse"
                /\ position' >= position + 2
                /\ Len(output') = Len(output) + 1
                /\ SubSeq(output', 1, Len(output)) = output
             \/ /\ pc' = "done"
                /\ position' >= position + 1
                /\ result'.status = "Err"
                /\ result'.error \in ComponentErrors
                /\ output' = output

C5_PipeResult ==
    Returned =>
        (result = ResultErr("UnexpectedPipe")
            <=> (MaximalTrim(input) # <<>> /\ MaximalTrim(input)[1] = 124))

C5_Pipe == [][C5_PipeStep /\ C5_PipeResult']_vars

\* A `|` after a first component was consumed and a second component parsed.
C5_Witness ==
    /\ pc = "parse"
    /\ Len(output) = 2
    /\ \E i \in 1..position : trimmed[i] = 124

\* C6: parse_descriptor terminates on every input: every iteration of the
\* loop of Parser::parse leaves the loop or moves the cursor strictly forward,
\* the cursor never passes the end of the input, and the number of iterations
\* is bounded by the input length.
C6_LoopStep ==
    pc = "parse" =>
        /\ position <= Len(trimmed)
        /\ position' <= Len(trimmed)
        /\ pc' \in {"parse", "parsed", "done"}
        /\ pc' = "parse" => position' > position
        /\ iterations' <= Len(trimmed) + 1

C6_LoopTerminates == [][C6_LoopStep]_vars

\* The loop went round three times and goes on.
C6_Witness ==
    /\ pc = "parse"
    /\ iterations = 3
    /\ position >= 3
    /\ Len(output) >= 1
    /\ trimmed[2] \in ParserWhitespace

\* C7: after a `<` where a name is expected, every byte up to the first `>`
\* belongs to the data type name: no `>` before the end of the input fails
\* with UnclosedDataTypeName, bytes that are not exactly a recognised name fail
\* with UnknownDataTypeName, otherwise the `>` is consumed and the component
\* appended has that data type for its name.
C7_DataTypeNameStep ==
    (AtLoopHead /\ NameByte = 60) =>
        LET lt == NamePosition + 1
            gts == {i \in (lt + 1)..Len(trimmed) : trimmed[i] = 62}
        IN  IF gts = {}
            THEN pc' = "done" /\ result' = ResultErr("UnclosedDataTypeName")
            ELSE LET raw == SubSeq(trimmed, lt + 1, Min(gts) - 1)
                 IN  IF from_bytes(raw) = "None"
                     THEN /\ pc' = "done"
                          /\ result' = ResultErr("UnknownDataTypeName")
                     ELSE /\ pc' = "parse"
                          /\ Len(output') = Len(output) + 1
                          /\ Last(output').name = DataTypeName(from_bytes(raw))
                          /\ position' \in {Min(gts), Min(gts) + 1}
                          /\ position' = Min(gts) + 1
                                => trimmed[position'] \in {43, 35}

C7_DataTypeName == [][C7_DataTypeNameStep]_vars

\* A `<`, a whitespace or `|` byte and a `>` were read as an unknown data type
\* name.
C7_Witness ==
    /\ Returned
    /\ result = ResultErr("UnknownDataTypeName")
    /\ Len(trimmed) = 3
    /\ trimmed[1] = 60
    /\ trimmed[2] \in {32, 10, 124}
    /\ trimmed[3] = 62

\* C10: a form feed at either end of the input is stripped before parsing; a
\* form feed inside the trimmed input is no whitespace for the parser: with
\* the cursor on one where whitespace, `|` or a component name is expected,
\* parse_descriptor fails with InvalidNameStart.
C10_FormFeedStep ==
    /\ (pc = "check" /\ trimmed # <<>>)
          => (trimmed[1] # 12 /\ Last(trimmed) # 12)
    /\ (AtLoopHead /\ NameByte = 12)
          => (pc' = "done" /\ result' = ResultErr("InvalidNameStart"))

C10_FormFeed == [][C10_FormFeedStep]_vars

\* The parse failed on a form feed inside the trimmed input.
C10_Witness ==
    /\ Returned
    /\ result = ResultErr("InvalidNameStart")
    /\ position < Len(trimmed)
    /\ trimmed[position + 1] = 12

\* SpecJoin: the component texts of the input, and the components they denote.
Texts == [i \in 1..((Len(parts) + 1) \div 2) |-> parts[2 * i - 1]]
ComponentOf(bytes) == (CHOOSE t \in ComponentTexts : t.bytes = bytes).component
Expected == [i \in 1..Len(Texts) |-> ComponentOf(Texts[i])]

HexDigits == (48..57) \cup (65..70) \cup (97..102)

\* The text ends in a backslash and one to six hex digits.
EndsInHexEscape(bytes) ==
    \E k \in 1..6 :
        /\ Len(bytes) > k
        /\ bytes[Len(bytes) - k] = 92
        /\ \A j \in (Len(bytes) - k + 1)..Len(bytes) : bytes[j] \in HexDigits

\* The escape that ends text i takes the beginning of the separator after it
\* into the name.
EscapeTakesSeparator(i) ==
    \/ Last(parts[2 * i - 1]) = 92
    \/ /\ EndsInHexEscape(parts[2 * i - 1])
       /\ parts[2 * i][1] \in AsciiWhitespace

\* C4, as claimed: well-formed component texts joined with parser whitespace
\* or with `|` parse to exactly their components, in order, whatever the
\* separators are.
C4_JoinedTextsParse ==
    Returned => result = ResultOk(Expected)

\* C4, amended: the same, provided no component text ends in an escape that
\* takes the separator after it into the name: a hex escape before whitespace,
\* or a lone backslash before any separator.
C4_JoinedTextsParseUnlessEscaped ==
    (Returned /\ \A i \in 1..(Len(Texts) - 1) : ~EscapeTakesSeparator(i))
        => result = ResultOk(Expected)

\* Two component texts with whitespace and no `|` between them were parsed
\* to their two components.
C4_Witness ==
    /\ Returned
    /\ Len(parts) = 3
    /\ parts[2] \in {<<32>>, <<9>>, <<10>>, <<13>>}
    /\ result = ResultOk(Expected)
    /\ Len(result.descriptor) = 2
    /\ result.descriptor[2].multiplier = "Comma"

====
